---- MODULE Spec2Model ----
(***************************************************************************)
(* Model of lib/database.ts ("FIXED VERSION"): the process-wide            *)
(* connection-pool singleton (getDbConnection), the retry wrapper          *)
(* (withRetry) and the repository / quota functions issued through it.     *)
(*                                                                         *)
(* Granularity.  The code runs on a single-threaded event loop, so a step  *)
(* of the model is one synchronous run of code between two suspension      *)
(* points (await of pool.connect(), await of a query, await of a backoff   *)
(* timer).  The completion of a connect or of a query and the continuation *)
(* of the one caller awaiting it form one step.                            *)
(***************************************************************************)
EXTENDS Integers, Sequences, FiniteSets, TLC

\* ---------------------------------------------------------------- bounds
NumCallers == 2         \* concurrently running withRetry calls
MaxPools == 3           \* ConnectionPool instances constructed in one run
MaxMaxRetries == 2      \* maxRetries arguments are drawn from 0..MaxMaxRetries
MaxFailures == 2        \* failures injected while calls overlap (Spec)
MaxFaults == 1          \* repository failures injected into route requests
DaysPerMonth == 3       \* days in each month of the calendar (SpecReset)
MaxUsage == 4           \* usage charged to a user is capped here (SpecReset)
EmailLen == 2           \* letters in an email address (SpecEmail)

Callers == 1..NumCallers
PoolIds == 1..MaxPools
Null == 0               \* the value null of `pool` and of recordset[0] || null

\* ---------------------------------------------------------------- errors
\* An error is known to withRetry only through its message.  The kind of an
\* error stands for what its message contains.
TransientKinds == {"ConnectionError", "RequestError", "TimeoutError"}
ErrKinds == TransientKinds \cup {"Constraint", "TypeError", "Other"}

\* IsTransient with the TimeoutError test of line 128 left out.
IsTransientMutant(kind) == kind \in {"ConnectionError", "RequestError"}
\* withRetry, lines 125-129: the test that decides the pool reset.
IsTransient(kind) == kind \in TransientKinds

VARIABLES
    pool,         \* the module variable `pool`: Null or a pool id
    nPools,       \* number of ConnectionPool instances constructed so far
    pstate,       \* per pool: "absent" | "connecting" | "connected" | "failed"
    fatal,        \* per pool: has it emitted an 'error' event
    pc,           \* per caller: position in withRetry
    fn,           \* per caller: the repository function it runs
    arg,          \* per caller: the arguments of that function
    maxRetries,   \* per caller: withRetry's maxRetries
    retryCount,   \* per caller: withRetry's retryCount
    awaited,      \* per caller: the pool whose connect() it awaits, if any
    borrowed,     \* per caller: what getDbConnection returned to it
    opRuns,       \* per caller: number of times operation(pool) was called
    sleeps,       \* per caller: the backoff delays slept so far
    discards,     \* per caller: executions of withRetry's `pool = null`
    lastErr,      \* per caller: the error caught by the latest attempt
    result,       \* per caller: what the call returned or threw
    users,        \* the users table: id -> row or NoRow
    \* the generate route (app/api/tts/generate/route.ts), per request
    stage,        \* position in POST: "none" | "check" | "synth" | "update"
                  \*   | "save" | "reread" | "done"
    preview,      \* the request's isPreview
    synth,        \* its synthesis: "none" | "started" | "completed"
                  \*   | "canceled" | "error"
    response,     \* the response sent: "none" or status and error text
    \* the rest of the database
    audioFiles,   \* the audio_files table: a set of rows
    resetDate,    \* per user: the usageResetDate column, in days
    now,          \* the server's GETDATE(), in days
    faults,       \* failures injected so far into route and usage calls
    \* initializeDatabase
    ipc,          \* position in initializeDatabase
    iRetry,       \* its retryCount
    iSleeps,      \* the delays it has slept
    iErr,         \* the error its latest failed attempt caught
    iPool,        \* the pool it awaits the connect of, then its `pool`
    \* the database's catalog
    tables,       \* the tables that exist in the database
    collation,    \* how the database compares strings: "CI" | "CS"
    \* the SIGINT / SIGTERM handlers
    proc,         \* "up", or "exited" after process.exit
    exitCode,     \* the code passed to process.exit, NoCode before it
    handler,      \* per signal: "idle" | "closing" | "done"
    closing,      \* per signal: the pool whose close() its handler awaits
    closeLog      \* per signal: what the handler logged about the close

poolVars == <<pool, nPools, pstate, fatal>>
callVars == <<pc, fn, arg, maxRetries, retryCount, awaited, borrowed, opRuns,
              sleeps, discards, lastErr, result>>
routeVars == <<stage, preview, synth, response>>
dataVars == <<audioFiles, resetDate, now>>
initVars == <<ipc, iRetry, iSleeps, iErr, iPool>>
catalogVars == <<tables, collation>>
signalVars == <<proc, exitCode, handler, closing, closeLog>>

\* What lib/database.ts's pool and retry code never writes.
hostVars == <<routeVars, dataVars, faults, initVars, catalogVars, signalVars>>

vars == <<pool, nPools, pstate, fatal, pc, fn, arg, maxRetries, retryCount,
          awaited, borrowed, opRuns, sleeps, discards, lastErr, result, users,
          hostVars>>

\* ------------------------------------------------------------ the database
UserIds == {"u1", "u2"}
Emails == {"a@b.com", "c@d.com"}
\* subscriptionStatus values a users row may hold: the three tiers, an
\* unrecognized tier, SQL NULL, and a name every JavaScript object inherits.
Tiers == {"free", "pro", "premium", "gold", "NULL", "constructor"}
\* charactersNeeded arguments and stored monthlyUsage values
Needed == {1, 2}
Usages == {0, 4999, 5000, 99999}

\* canUserUseCharacters, lines 257-261: the object literal `limits`.
limits == [free |-> 5000, pro |-> 100000, premium |-> 500000]

\* Names that limits[...] finds on Object.prototype although the literal does
\* not define them; the value found is a function, not a number.
ObjectPrototypeKeys == {"constructor"}
\* stands for such a function where a number is expected
InheritedMember == -1

\* canUserUseCharacters, line 263:
\*   limits[user.subscriptionStatus as keyof typeof limits] || 5000
UserLimit(status) ==
    IF status \in DOMAIN limits THEN limits[status]
    ELSE IF status \in ObjectPrototypeKeys THEN InheritedMember
    ELSE 5000

\* getUserWithSubscription, lines 218-233: the recordset of
\* SELECT ... WHERE id = @userId, which holds one row or none;
\* `result.recordset[0] || null` is null exactly when it is empty.
GetUserWithSubscription(table, userId) ==
    IF userId \in DOMAIN table THEN <<table[userId]>> ELSE <<>>

\* CanUseResult treating an absent user as getUserDashboard does (lines
\* 345-359): the free tier with zero consumption.
CanUseResultMutant(recordset, charactersNeeded) ==
    IF recordset = <<>>
    THEN [canUse |-> charactersNeeded <= 5000, currentUsage |-> 0, limit |-> 5000]
    ELSE LET user == recordset[1]
             userLimit == UserLimit(user.subscriptionStatus)
         IN  [canUse |-> userLimit # InheritedMember
                         /\ user.monthlyUsage + charactersNeeded <= userLimit,
              currentUsage |-> user.monthlyUsage,
              limit |-> userLimit]
\* canUserUseCharacters, lines 253-270, applied to what
\* getUserWithSubscription found.  A comparison of a number with a function
\* is false (NaN).
CanUseResult(recordset, charactersNeeded) ==
    IF recordset = <<>>
    THEN [canUse |-> FALSE, currentUsage |-> 0, limit |-> 0]
    ELSE LET user == recordset[1]
             userLimit == UserLimit(user.subscriptionStatus)
         IN  [canUse |-> userLimit # InheritedMember
                         /\ user.monthlyUsage + charactersNeeded <= userLimit,
              currentUsage |-> user.monthlyUsage,
              limit |-> userLimit]

\* createUser, lines 158-161, against the constraints of lines 64-65:
\* id is the PRIMARY KEY and email is UNIQUE.
CreateUserConflict(table, userId, email) ==
    \/ userId \in DOMAIN table
    \/ \E u \in DOMAIN table : table[u].email = email

\* The row the INSERT of createUser stores: the given id and email, and the
\* column defaults of lines 72-73.
InsertUser(table, userId, email) ==
    [u \in DOMAIN table \cup {userId} |->
        IF u = userId
        THEN [email |-> email, subscriptionStatus |-> "free", monthlyUsage |-> 0]
        ELSE table[u]]

\* ------------------------------------------------------------- withRetry
NoErr == [kind |-> "none", attempt |-> 0]
Pending == [status |-> "pending", value |-> "none", err |-> NoErr]
Returned(v) == [status |-> "returned", value |-> v, err |-> NoErr]
Thrown(e) == [status |-> "thrown", value |-> "none", err |-> e]

\* Exhausted with `>=` for the `>` of line 133.
ExhaustedMutant(count, max) == count >= max
\* withRetry, line 133: `if (retryCount > maxRetries) throw error`
Exhausted(count, max) == count > max

\* BackoffDelay growing with the square of the attempt count.
BackoffDelayMutant(count) == 500 * count * count
\* withRetry, line 138: setTimeout(resolve, 500 * retryCount)
BackoffDelay(count) == 500 * count

\* Kinds of failure a query on a usable pool may report besides a constraint
\* violation, and kinds of failure pool.connect() may report.
QueryFailKinds == {"RequestError", "TimeoutError", "Other"}
ConnectFailKinds == {"ConnectionError", "Other"}

\* The signals lib/database.ts handles (lines 366 and 378), and the exit
\* code of a process that has not exited.
Signals == {"SIGINT", "SIGTERM"}
NoCode == -1

\* Before any request, any scheduled reset, initializeDatabase or signal.
HostInit ==
    /\ stage = [c \in Callers |-> "none"]
    /\ preview = [c \in Callers |-> FALSE]
    /\ synth = [c \in Callers |-> "none"]
    /\ response = [c \in Callers |-> "none"]
    /\ audioFiles = {}
    /\ resetDate = [u \in UserIds |-> 0]
    /\ now = 0
    /\ faults = 0
    /\ ipc = "idle"
    /\ iRetry = 0
    /\ iSleeps = <<>>
    /\ iErr = NoErr
    /\ iPool = Null
    /\ tables = {"users", "audio_files"}
    /\ collation = "CI"
    /\ proc = "up"
    /\ exitCode = NoCode
    /\ handler = [s \in Signals |-> "idle"]
    /\ closing = [s \in Signals |-> Null]
    /\ closeLog = [s \in Signals |-> "none"]

Init ==
    /\ pool = Null
    /\ nPools = 0
    /\ pstate = [p \in PoolIds |-> "absent"]
    /\ fatal = [p \in PoolIds |-> FALSE]
    /\ pc = [c \in Callers |-> "idle"]
    /\ fn = [c \in Callers |-> "none"]
    /\ arg = [c \in Callers |-> [userId |-> "u1", email |-> "a@b.com", n |-> 1]]
    /\ maxRetries = [c \in Callers |-> 0]
    /\ retryCount = [c \in Callers |-> 0]
    /\ awaited = [c \in Callers |-> Null]
    /\ borrowed = [c \in Callers |-> Null]
    /\ opRuns = [c \in Callers |-> 0]
    /\ sleeps = [c \in Callers |-> <<>>]
    /\ discards = [c \in Callers |-> 0]
    /\ lastErr = [c \in Callers |-> NoErr]
    /\ result = [c \in Callers |-> Pending]
    /\ users = [u \in {"u1"} |->
                  [email |-> "a@b.com", subscriptionStatus |-> "free",
                   monthlyUsage |-> 4999]]
    /\ HostInit

\* A repository function is called: createUser (lines 146-163) or
\* canUserUseCharacters (lines 250-251, through getUserWithSubscription).
\* Each enters withRetry, lines 113-116: retryCount = 0.
Start(c, f, a, max) ==
    /\ pc[c] = "idle"
    /\ pc' = [pc EXCEPT ![c] = "loop"]
    /\ fn' = [fn EXCEPT ![c] = f]
    /\ arg' = [arg EXCEPT ![c] = a]
    /\ maxRetries' = [maxRetries EXCEPT ![c] = max]
    /\ retryCount' = [retryCount EXCEPT ![c] = 0]
    /\ UNCHANGED <<pool, nPools, pstate, fatal, awaited, borrowed, opRuns,
                   sleeps, discards, lastErr, result, users>>
    /\ UNCHANGED hostVars

\* GetDbConnection with line 27 reading `if (!pool || !pool.connected)`: a
\* pool that is still connecting is replaced by a new one.
GetDbConnectionMutant(c) ==
    /\ pc[c] = "loop"
    /\ IF pool = Null \/ pstate[pool] # "connected"
       THEN /\ nPools < MaxPools
            /\ nPools' = nPools + 1
            /\ pool' = nPools + 1
            /\ pstate' = [pstate EXCEPT ![nPools + 1] = "connecting"]
            /\ awaited' = [awaited EXCEPT ![c] = nPools + 1]
            /\ pc' = [pc EXCEPT ![c] = "connect"]
            /\ UNCHANGED <<borrowed, opRuns>>
       ELSE /\ borrowed' = [borrowed EXCEPT ![c] = pool]
            /\ opRuns' = [opRuns EXCEPT ![c] = @ + 1]
            /\ pc' = [pc EXCEPT ![c] = "running"]
            /\ UNCHANGED <<pool, nPools, pstate, awaited>>
    /\ UNCHANGED <<fatal, fn, arg, maxRetries, retryCount, sleeps, discards,
                   lastErr, result, users>>
    /\ UNCHANGED hostVars

\* getDbConnection, lines 26-49, up to its first suspension: either it
\* starts a connect and awaits it (line 40), or it returns `pool` at once
\* (line 48) and withRetry calls operation(pool) (line 119).
GetDbConnection(c) ==
    /\ pc[c] = "loop"
    /\ IF pool = Null
       THEN \* lines 27-35 and 38-40: a new pool, not connected, not connecting
            /\ nPools < MaxPools
            /\ nPools' = nPools + 1
            /\ pool' = nPools + 1
            /\ pstate' = [pstate EXCEPT ![nPools + 1] = "connecting"]
            /\ awaited' = [awaited EXCEPT ![c] = nPools + 1]
            /\ pc' = [pc EXCEPT ![c] = "connect"]
            /\ UNCHANGED <<borrowed, opRuns>>
       ELSE IF pstate[pool] \notin {"connected", "connecting"}
       THEN \* lines 38-40: reconnect the existing pool
            /\ pstate' = [pstate EXCEPT ![pool] = "connecting"]
            /\ awaited' = [awaited EXCEPT ![c] = pool]
            /\ pc' = [pc EXCEPT ![c] = "connect"]
            /\ UNCHANGED <<pool, nPools, borrowed, opRuns>>
       ELSE \* line 48: the pool is connected or connecting
            /\ borrowed' = [borrowed EXCEPT ![c] = pool]
            /\ opRuns' = [opRuns EXCEPT ![c] = @ + 1]
            /\ pc' = [pc EXCEPT ![c] = "running"]
            /\ UNCHANGED <<pool, nPools, pstate, awaited>>
    /\ UNCHANGED <<fatal, fn, arg, maxRetries, retryCount, sleeps, discards,
                   lastErr, result, users>>
    /\ UNCHANGED hostVars

\* getDbConnection, lines 40 and 48: the awaited connect succeeds, the
\* function returns the module variable `pool` as it is now, and withRetry
\* calls operation(pool) (line 119).
ConnectOk(c) ==
    /\ pc[c] = "connect"
    /\ pstate' = [pstate EXCEPT ![awaited[c]] = "connected"]
    /\ awaited' = [awaited EXCEPT ![c] = Null]
    /\ borrowed' = [borrowed EXCEPT ![c] = pool]
    /\ opRuns' = [opRuns EXCEPT ![c] = @ + 1]
    /\ pc' = [pc EXCEPT ![c] = "running"]
    /\ UNCHANGED <<pool, nPools, fatal, fn, arg, maxRetries, retryCount,
                   sleeps, discards, lastErr, result, users>>
    /\ UNCHANGED hostVars

\* withRetry, lines 120-139: the catch block, entered with the error of the
\* attempt; poolNow is `pool` as the catch block finds it.
Catch(c, kind, poolNow) ==
    LET count == retryCount[c] + 1
        error == [kind |-> kind, attempt |-> count]
    IN  /\ retryCount' = [retryCount EXCEPT ![c] = count]
        /\ lastErr' = [lastErr EXCEPT ![c] = error]
        /\ pool' = IF IsTransient(kind) THEN Null ELSE poolNow
        /\ discards' = [discards EXCEPT ![c] =
                           IF IsTransient(kind) THEN @ + 1 ELSE @]
        /\ IF Exhausted(count, maxRetries[c])
           THEN /\ pc' = [pc EXCEPT ![c] = "thrown"]
                /\ result' = [result EXCEPT ![c] = Thrown(error)]
                /\ UNCHANGED sleeps
           ELSE /\ pc' = [pc EXCEPT ![c] = "sleeping"]
                /\ sleeps' = [sleeps EXCEPT ![c] = Append(@, BackoffDelay(count))]
                /\ UNCHANGED result

\* ConnectFail without the `pool = null` of line 43.
ConnectFailMutant(c, kind) ==
    /\ pc[c] = "connect"
    /\ pstate' = [pstate EXCEPT ![awaited[c]] = "failed"]
    /\ awaited' = [awaited EXCEPT ![c] = Null]
    /\ Catch(c, kind, pool)
    /\ UNCHANGED <<nPools, fatal, fn, arg, maxRetries, borrowed, opRuns, users>>
    /\ UNCHANGED hostVars

\* getDbConnection, lines 41-45: the awaited connect fails; `pool = null`,
\* the error is rethrown and caught by withRetry (line 120).
ConnectFail(c, kind) ==
    /\ pc[c] = "connect"
    /\ pstate' = [pstate EXCEPT ![awaited[c]] = "failed"]
    /\ awaited' = [awaited EXCEPT ![c] = Null]
    /\ Catch(c, kind, Null)
    /\ UNCHANGED <<nPools, fatal, fn, arg, maxRetries, borrowed, opRuns, users>>
    /\ UNCHANGED hostVars

\* OperationOk with the `return` of line 119 lost: the value is kept but the
\* loop goes round again.
OperationOkMutant(c) ==
    /\ pc[c] = "running"
    /\ borrowed[c] # Null
    /\ pstate[borrowed[c]] = "connected"
    /\ \/ /\ fn[c] = "canUserUseCharacters"
          /\ result' = [result EXCEPT ![c] =
                Returned(CanUseResult(GetUserWithSubscription(users, arg[c].userId),
                                      arg[c].n))]
          /\ UNCHANGED users
       \/ /\ fn[c] = "createUser"
          /\ ~CreateUserConflict(users, arg[c].userId, arg[c].email)
          /\ users' = InsertUser(users, arg[c].userId, arg[c].email)
          /\ result' = [result EXCEPT ![c] = Returned("undefined")]
    /\ pc' = [pc EXCEPT ![c] = IF retryCount[c] < maxRetries[c]
                                THEN "loop" ELSE "returned"]
    /\ UNCHANGED <<pool, nPools, pstate, fatal, fn, arg, maxRetries, retryCount,
                   awaited, borrowed, opRuns, sleeps, discards, lastErr>>
    /\ UNCHANGED hostVars

\* withRetry, line 119: the operation resolves; its value is returned.  For
\* canUserUseCharacters the value of getUserWithSubscription is then turned
\* into the usage check (lines 253-270).
\* A query can succeed only on a pool that is connected when it completes.
OperationOk(c) ==
    /\ pc[c] = "running"
    /\ borrowed[c] # Null
    /\ pstate[borrowed[c]] = "connected"
    /\ \/ /\ fn[c] = "canUserUseCharacters"
          /\ result' = [result EXCEPT ![c] =
                Returned(CanUseResult(GetUserWithSubscription(users, arg[c].userId),
                                      arg[c].n))]
          /\ UNCHANGED users
       \/ /\ fn[c] = "createUser"
          /\ ~CreateUserConflict(users, arg[c].userId, arg[c].email)
          /\ users' = InsertUser(users, arg[c].userId, arg[c].email)
          /\ result' = [result EXCEPT ![c] = Returned("undefined")]
    /\ pc' = [pc EXCEPT ![c] = "returned"]
    /\ UNCHANGED <<pool, nPools, pstate, fatal, fn, arg, maxRetries, retryCount,
                   awaited, borrowed, opRuns, sleeps, discards, lastErr>>
    /\ UNCHANGED hostVars

\* The failures operation(pool) may end with: pool.request() on null is a
\* TypeError; an INSERT that breaks a constraint is refused by the server;
\* any query may fail for connection, request or timeout reasons.
OperationFailKinds(c) ==
    IF borrowed[c] = Null THEN {"TypeError"}
    ELSE QueryFailKinds \cup
         (IF /\ fn[c] = "createUser"
             /\ pstate[borrowed[c]] = "connected"
             /\ CreateUserConflict(users, arg[c].userId, arg[c].email)
          THEN {"Constraint"} ELSE {})

\* withRetry, lines 119-120: the operation rejects and the catch block runs.
OperationFail(c, kind) ==
    /\ pc[c] = "running"
    /\ kind \in OperationFailKinds(c)
    /\ Catch(c, kind, pool)
    /\ UNCHANGED <<nPools, pstate, fatal, fn, arg, maxRetries, awaited,
                   borrowed, opRuns, users>>
    /\ UNCHANGED hostVars

\* withRetry, lines 138 and 116: the backoff timer fires and the loop
\* goes round.
Wake(c) ==
    /\ pc[c] = "sleeping"
    /\ pc' = [pc EXCEPT ![c] = "loop"]
    /\ UNCHANGED <<pool, nPools, pstate, fatal, fn, arg, maxRetries, retryCount,
                   awaited, borrowed, opRuns, sleeps, discards, lastErr,
                   result, users>>
    /\ UNCHANGED hostVars

\* PoolError without the `pool = null` of line 33.
PoolErrorMutant(p) ==
    /\ pstate[p] = "connected"
    /\ ~fatal[p]
    /\ fatal' = [fatal EXCEPT ![p] = TRUE]
    /\ UNCHANGED <<pool, nPools, pstate, pc, fn, arg, maxRetries, retryCount,
                   awaited, borrowed, opRuns, sleeps, discards, lastErr,
                   result, users>>
    /\ UNCHANGED hostVars

\* getDbConnection, lines 31-34: a pool emits 'error' and the observer
\* registered on it sets the module variable `pool` to null.
PoolError(p) ==
    /\ pstate[p] = "connected"
    /\ ~fatal[p]
    /\ fatal' = [fatal EXCEPT ![p] = TRUE]
    /\ pool' = Null
    /\ UNCHANGED <<nPools, pstate, pc, fn, arg, maxRetries, retryCount, awaited,
                   borrowed, opRuns, sleeps, discards, lastErr, result, users>>
    /\ UNCHANGED hostVars

\* withRetry, line 113: maxRetries = 2 unless the caller passes one.
DefaultMaxRetries == 2

\* ------------------------------------------------- repository statements
\* Email addresses are sequences of EmailLen letters in either case.
Letters == {"a", "A", "b", "B"}
CaseEmails == [1..EmailLen -> Letters]

\* findUserByEmail, line 168: email.toLowerCase() replaces every upper-case
\* letter by its lower-case letter.
LowerChar(ch) ==
    CASE ch = "A" -> "a"
      [] ch = "B" -> "b"
      [] OTHER -> ch
ToLowerCase(email) == [i \in DOMAIN email |-> LowerChar(email[i])]

\* findUserByEmail, line 169: `email = @email` as the database evaluates it.
\* The schema (lines 62-75) names no collation, so the comparison follows
\* the database's default: case-insensitive ("CI") or case-sensitive ("CS").
SameText(a, b, coll) ==
    IF coll = "CI" THEN ToLowerCase(a) = ToLowerCase(b) ELSE a = b

\* findUserByEmail, lines 165-173: the id of the first row whose email
\* equals the lower-cased argument, or "null" (recordset[0] || null).
FindUserByEmail(table, email, coll) ==
    LET found == {u \in DOMAIN table :
                     SameText(table[u].email, ToLowerCase(email), coll)}
    IN  IF found = {} THEN "null" ELSE CHOOSE u \in found : TRUE

\* Dates are counted in days, in a calendar whose months all have
\* DaysPerMonth days.  DATEDIFF(month, a, b) of line 280 is the number of
\* month boundaries between a and b: the difference of their month numbers,
\* whatever their days of the month.
MonthOf(date) == date \div DaysPerMonth
DateDiffMonth(a, b) == MonthOf(b) - MonthOf(a)

\* resetMonthlyUsage, line 280: the rows the WHERE clause selects.
ResetDue(rows, dates, today) ==
    {u \in rows : DateDiffMonth(dates[u], today) >= 1}

\* UpdateUserUsage with `AND monthlyUsage + @charactersUsed <= 5000` added to
\* the WHERE clause of line 243: the free limit is enforced again at the
\* update.
UpdateUserUsageMutant(table, userId, charactersUsed) ==
    [u \in DOMAIN table |->
        IF u = userId /\ table[u].monthlyUsage + charactersUsed <= 5000
        THEN [table[u] EXCEPT !.monthlyUsage = @ + charactersUsed]
        ELSE table[u]]
\* updateUserUsage, lines 239-244: UPDATE users SET monthlyUsage =
\* monthlyUsage + @charactersUsed WHERE id = @userId.  The statement is one
\* atomic read-modify-write of the row; it touches no other row.
UpdateUserUsage(table, userId, charactersUsed) ==
    [u \in DOMAIN table |->
        IF u = userId
        THEN [table[u] EXCEPT !.monthlyUsage = @ + charactersUsed]
        ELSE table[u]]

\* saveAudioFile, lines 296-297: the id of the new row is made from
\* Date.now() and Math.random() each time the operation runs, so it differs
\* from one attempt of one call to the next.
AudioId(c, attempt) == <<c, attempt>>

\* saveAudioFile, lines 299-311: the INSERT adds one row to audio_files.
SaveAudioFile(rows, audioId, userId) ==
    rows \cup {[id |-> audioId, userId |-> userId]}

\* ResetUsers leaving one character of the old usage on the row.
ResetUsersMutant(table, due) ==
    [u \in DOMAIN table |->
        IF u \in due THEN [table[u] EXCEPT !.monthlyUsage = @ - 1]
        ELSE table[u]]
\* resetMonthlyUsage, lines 277-280: the rows the WHERE clause selects get
\* monthlyUsage = 0 and usageResetDate = GETDATE(); no other row changes.
ResetUsers(table, due) ==
    [u \in DOMAIN table |->
        IF u \in due THEN [table[u] EXCEPT !.monthlyUsage = 0] ELSE table[u]]
ResetDates(dates, due, today) ==
    [u \in DOMAIN dates |-> IF u \in due THEN today ELSE dates[u]]

\* The repository functions that change the database, and with them those
\* that read a user.
WriteFns == {"updateUserUsage", "saveAudioFile", "resetMonthlyUsage"}
RepositoryFns == WriteFns \cup {"getUserWithSubscription", "findUserByEmail"}

\* The effect on the database of the statement caller c's operation issues.
Applied(c) ==
    /\ users' = IF fn[c] = "updateUserUsage"
                THEN UpdateUserUsage(users, arg[c].userId, arg[c].n)
                ELSE IF fn[c] = "resetMonthlyUsage"
                THEN ResetUsers(users, ResetDue(DOMAIN users, resetDate, now))
                ELSE users
    /\ audioFiles' = IF fn[c] = "saveAudioFile"
                     THEN SaveAudioFile(audioFiles, AudioId(c, opRuns[c]),
                                        arg[c].userId)
                     ELSE audioFiles
    /\ resetDate' = IF fn[c] = "resetMonthlyUsage"
                    THEN ResetDates(resetDate,
                                    ResetDue(DOMAIN users, resetDate, now), now)
                    ELSE resetDate

\* What the operation resolves to: nothing (lines 236-247, 274-283), the
\* audioId (line 313), or the row found (lines 171 and 230).
Value(c) ==
    IF fn[c] = "saveAudioFile" THEN AudioId(c, opRuns[c])
    ELSE IF fn[c] = "getUserWithSubscription"
         THEN GetUserWithSubscription(users, arg[c].userId)
    ELSE IF fn[c] = "findUserByEmail"
         THEN FindUserByEmail(users, arg[c].email, collation)
         ELSE "undefined"

\* withRetry, line 119, for the functions of RepositoryFns: the
\* statement is executed and the operation resolves.
RepositoryOk(c) ==
    /\ pc[c] = "running"
    /\ borrowed[c] # Null
    /\ pstate[borrowed[c]] = "connected"
    /\ fn[c] \in RepositoryFns
    /\ Applied(c)
    /\ result' = [result EXCEPT ![c] = Returned(Value(c))]
    /\ pc' = [pc EXCEPT ![c] = "returned"]
    /\ UNCHANGED <<poolVars, fn, arg, maxRetries, retryCount, awaited,
                   borrowed, opRuns, sleeps, discards, lastErr>>
    /\ UNCHANGED <<routeVars, now, faults, initVars, catalogVars, signalVars>>

\* withRetry, lines 119-120: the operation rejects before its statement
\* has had any effect, and the catch block runs.
RepositoryFail(c, kind) ==
    /\ pc[c] = "running"
    /\ borrowed[c] # Null
    /\ Catch(c, kind, pool)
    /\ faults' = faults + 1
    /\ UNCHANGED <<nPools, pstate, fatal, fn, arg, maxRetries, awaited,
                   borrowed, opRuns, users>>
    /\ UNCHANGED <<routeVars, dataVars, initVars, catalogVars, signalVars>>

\* withRetry, lines 119-120: the server executes the statement, but the
\* request is reported to the caller as failed (its reply is lost or comes
\* after the request timeout), and the catch block runs.
RepositoryFailApplied(c, kind) ==
    /\ pc[c] = "running"
    /\ borrowed[c] # Null
    /\ pstate[borrowed[c]] = "connected"
    /\ fn[c] \in WriteFns
    /\ Applied(c)
    /\ Catch(c, kind, pool)
    /\ faults' = faults + 1
    /\ UNCHANGED <<nPools, pstate, fatal, fn, arg, maxRetries, awaited,
                   borrowed, opRuns>>
    /\ UNCHANGED <<routeVars, now, initVars, catalogVars, signalVars>>

\* ------------------------------------------------------ the generate route
\* route.ts: the length of the request's text (line 36), which is at least 1
\* past the test of line 32; the user the token names (line 24).
TextLengths == {1}
RouteUser == "u1"

\* A repository function is called from the route: withRetry starts afresh
\* (lines 113-116) with the default maxRetries.
Call(c, f, a) ==
    /\ pc' = [pc EXCEPT ![c] = "loop"]
    /\ fn' = [fn EXCEPT ![c] = f]
    /\ arg' = [arg EXCEPT ![c] = a]
    /\ maxRetries' = [maxRetries EXCEPT ![c] = DefaultMaxRetries]
    /\ retryCount' = [retryCount EXCEPT ![c] = 0]
    /\ awaited' = [awaited EXCEPT ![c] = Null]
    /\ borrowed' = [borrowed EXCEPT ![c] = Null]
    /\ opRuns' = [opRuns EXCEPT ![c] = 0]
    /\ sleeps' = [sleeps EXCEPT ![c] = <<>>]
    /\ discards' = [discards EXCEPT ![c] = 0]
    /\ lastErr' = [lastErr EXCEPT ![c] = NoErr]
    /\ result' = [result EXCEPT ![c] = Pending]

\* The awaited withRetry call is over and the route has taken its outcome:
\* nothing of the call remains.
Release(c) ==
    /\ pc' = [pc EXCEPT ![c] = "idle"]
    /\ fn' = [fn EXCEPT ![c] = "none"]
    /\ maxRetries' = [maxRetries EXCEPT ![c] = 0]
    /\ retryCount' = [retryCount EXCEPT ![c] = 0]
    /\ awaited' = [awaited EXCEPT ![c] = Null]
    /\ borrowed' = [borrowed EXCEPT ![c] = Null]
    /\ opRuns' = [opRuns EXCEPT ![c] = 0]
    /\ sleeps' = [sleeps EXCEPT ![c] = <<>>]
    /\ discards' = [discards EXCEPT ![c] = 0]
    /\ lastErr' = [lastErr EXCEPT ![c] = NoErr]
    /\ result' = [result EXCEPT ![c] = Pending]
    /\ UNCHANGED arg

\* route.ts, a return statement: the response is sent and the request ends.
Respond(c, r) ==
    /\ response' = [response EXCEPT ![c] = r]
    /\ stage' = [stage EXCEPT ![c] = "done"]

\* route.ts, lines 52-92: the synthesizer is built and speakSsmlAsync is
\* called.
StartSynthesis(c) ==
    /\ synth' = [synth EXCEPT ![c] = "started"]
    /\ stage' = [stage EXCEPT ![c] = "synth"]

\* route.ts, lines 12-40 (and 52-92 for a preview): an authenticated request
\* with a text arrives.  A preview goes straight to synthesis; any other
\* request first calls canUserUseCharacters.
Post(c, isPreview, n) ==
    /\ stage[c] = "none"
    /\ pc[c] = "idle"
    /\ preview' = [preview EXCEPT ![c] = isPreview]
    /\ IF isPreview
       THEN /\ StartSynthesis(c)
            /\ arg' = [arg EXCEPT ![c].userId = RouteUser, ![c].n = n]
            /\ UNCHANGED <<pc, fn, maxRetries, retryCount, awaited, borrowed,
                           opRuns, sleeps, discards, lastErr, result>>
       ELSE /\ stage' = [stage EXCEPT ![c] = "check"]
            /\ Call(c, "canUserUseCharacters",
                    [arg[c] EXCEPT !.userId = RouteUser, !.n = n])
            /\ UNCHANGED synth
    /\ UNCHANGED <<poolVars, users, response, dataVars, faults, initVars, catalogVars,
                   signalVars>>

\* AfterCheck without the test of line 42: synthesis starts whatever the
\* usage check said.
AfterCheckMutant(c) ==
    /\ stage[c] = "check"
    /\ pc[c] \in {"returned", "thrown"}
    /\ IF pc[c] = "thrown"
       THEN Respond(c, "500 Internal server error") /\ UNCHANGED synth
       ELSE StartSynthesis(c) /\ UNCHANGED response
    /\ UNCHANGED <<poolVars, users, preview, dataVars, faults,
                   initVars, catalogVars, signalVars>>
    /\ Release(c)

\* route.ts, lines 40-50 and 136-139: canUserUseCharacters has returned or
\* thrown.  A thrown error is answered with 500, a refusal with 429;
\* otherwise synthesis starts (lines 52-92).
AfterCheck(c) ==
    /\ stage[c] = "check"
    /\ pc[c] \in {"returned", "thrown"}
    /\ IF pc[c] = "thrown"
       THEN Respond(c, "500 Internal server error") /\ UNCHANGED synth
       ELSE IF ~result[c].value.canUse
            THEN Respond(c, "429 Usage limit exceeded") /\ UNCHANGED synth
            ELSE StartSynthesis(c) /\ UNCHANGED response
    /\ UNCHANGED <<poolVars, users, preview, dataVars, faults,
                   initVars, catalogVars, signalVars>>
    /\ Release(c)

\* route.ts, lines 83-86 and 94-113: the synthesis completes with
\* SynthesizingAudioCompleted.  A preview goes on to read the user back
\* (line 113); any other request calls updateUserUsage (line 100).
SynthesisCompleted(c) ==
    /\ stage[c] = "synth"
    /\ synth' = [synth EXCEPT ![c] = "completed"]
    /\ IF preview[c]
       THEN /\ stage' = [stage EXCEPT ![c] = "reread"]
            /\ Call(c, "getUserWithSubscription", arg[c])
       ELSE /\ stage' = [stage EXCEPT ![c] = "update"]
            /\ Call(c, "updateUserUsage", arg[c])
    /\ UNCHANGED <<poolVars, users, preview, response, dataVars, faults,
                   initVars, catalogVars, signalVars>>

\* route.ts, lines 83-86 and 128-134: the synthesis ends with another
\* reason (canceled), or, lines 87-90 and 136-139, with an error.
SynthesisFailed(c, how) ==
    /\ stage[c] = "synth"
    /\ synth' = [synth EXCEPT ![c] = how]
    /\ Respond(c, IF how = "canceled" THEN "500 Speech synthesis failed"
                  ELSE "500 Internal server error")
    /\ UNCHANGED <<poolVars, callVars, users, preview, dataVars, faults,
                   initVars, catalogVars, signalVars>>

\* route.ts, lines 100-102 and 136-139: updateUserUsage has returned, and
\* saveAudioFile is called; or it has thrown.
AfterUpdate(c) ==
    /\ stage[c] = "update"
    /\ pc[c] \in {"returned", "thrown"}
    /\ IF pc[c] = "thrown"
       THEN /\ Respond(c, "500 Internal server error")
            /\ Release(c)
       ELSE /\ stage' = [stage EXCEPT ![c] = "save"]
            /\ Call(c, "saveAudioFile", arg[c])
            /\ UNCHANGED response
    /\ UNCHANGED <<poolVars, users, preview, synth, dataVars, faults,
                   initVars, catalogVars, signalVars>>

\* route.ts, lines 102-113 and 136-139: saveAudioFile has returned, and the
\* user is read back; or it has thrown.
AfterSave(c) ==
    /\ stage[c] = "save"
    /\ pc[c] \in {"returned", "thrown"}
    /\ IF pc[c] = "thrown"
       THEN /\ Respond(c, "500 Internal server error")
            /\ Release(c)
       ELSE /\ stage' = [stage EXCEPT ![c] = "reread"]
            /\ Call(c, "getUserWithSubscription", arg[c])
            /\ UNCHANGED response
    /\ UNCHANGED <<poolVars, users, preview, synth, dataVars, faults,
                   initVars, catalogVars, signalVars>>

\* route.ts, lines 113-126 and 136-139: getUserWithSubscription has
\* returned and the success response is sent; or it has thrown.
AfterReread(c) ==
    /\ stage[c] = "reread"
    /\ pc[c] \in {"returned", "thrown"}
    /\ Respond(c, IF pc[c] = "thrown" THEN "500 Internal server error"
                  ELSE "200")
    /\ UNCHANGED <<poolVars, users, preview, synth, dataVars,
                   faults, initVars, catalogVars, signalVars>>
    /\ Release(c)

\* --------------------------------------------------- initializeDatabase
\* line 54: const maxRetries = 3.
InitMaxRetries == 3

\* InitExhausted with `>` for the `>=` of line 103.
InitExhaustedMutant(count) == count > InitMaxRetries
\* initializeDatabase, line 103: if (retryCount >= maxRetries) throw error.
InitExhausted(count) == count >= InitMaxRetries

\* initializeDatabase, line 108: setTimeout(resolve, 1000 * retryCount).
InitBackoffDelay(count) == 1000 * count

\* initializeDatabase, lines 52-56: it is called, retryCount = 0, and the
\* loop is entered.
InitializeDatabase ==
    /\ ipc = "idle"
    /\ ipc' = "loop"
    /\ iRetry' = 0
    /\ UNCHANGED <<poolVars, callVars, users, routeVars, dataVars, faults,
                   iSleeps, iErr, iPool, catalogVars, signalVars>>

\* initializeDatabase, line 58, into getDbConnection, lines 26-49, up to
\* the first suspension: a new pool is built and its connect awaited, or
\* the existing pool is reconnected, or, connected or connecting, it is
\* returned at once and the first statement is issued on it (line 61).
InitGetDbConnection ==
    /\ ipc = "loop"
    /\ IF pool = Null
       THEN /\ nPools < MaxPools
            /\ nPools' = nPools + 1
            /\ pool' = nPools + 1
            /\ pstate' = [pstate EXCEPT ![nPools + 1] = "connecting"]
            /\ iPool' = nPools + 1
            /\ ipc' = "connect"
       ELSE IF pstate[pool] \notin {"connected", "connecting"}
       THEN /\ pstate' = [pstate EXCEPT ![pool] = "connecting"]
            /\ iPool' = pool
            /\ ipc' = "connect"
            /\ UNCHANGED <<pool, nPools>>
       ELSE /\ iPool' = pool
            /\ ipc' = "users"
            /\ UNCHANGED <<pool, nPools, pstate>>
    /\ UNCHANGED <<fatal, callVars, users, routeVars, dataVars, faults,
                   iRetry, iSleeps, iErr, catalogVars, signalVars>>

\* getDbConnection, lines 40-41 and 48, and initializeDatabase, lines
\* 58-61: the connect resolves, the module variable `pool` is returned, and
\* the first statement is issued on it.
InitConnectOk ==
    /\ ipc = "connect"
    /\ pstate' = [pstate EXCEPT ![iPool] = "connected"]
    /\ iPool' = pool
    /\ ipc' = "users"
    /\ UNCHANGED <<pool, nPools, fatal, callVars, users, routeVars, dataVars,
                   faults, iRetry, iSleeps, iErr, catalogVars, signalVars>>

\* initializeDatabase, lines 99-108: the catch block.  After the third
\* failure the error is rethrown; before that the loop sleeps
\* 1000 * retryCount ms.
InitCatch(kind) ==
    LET count == iRetry + 1
    IN  /\ iRetry' = count
        /\ iErr' = [kind |-> kind, attempt |-> count]
        /\ IF InitExhausted(count)
           THEN ipc' = "thrown" /\ UNCHANGED iSleeps
           ELSE /\ ipc' = "sleeping"
                /\ iSleeps' = Append(iSleeps, InitBackoffDelay(count))

\* getDbConnection, lines 42-45: the connect rejects, the pool is
\* discarded and the error reaches initializeDatabase's catch block.
InitConnectFail(kind) ==
    /\ ipc = "connect"
    /\ pstate' = [pstate EXCEPT ![iPool] = "failed"]
    /\ pool' = Null
    /\ iPool' = Null
    /\ InitCatch(kind)
    /\ UNCHANGED <<nPools, fatal, callVars, users, routeVars, dataVars,
                   faults, catalogVars, signalVars>>

\* initializeDatabase, lines 61-96: a CREATE TABLE statement, guarded by IF
\* NOT EXISTS, succeeds on a connected pool; after the first the second is
\* issued, after the second the function returns.
InitQueryOk ==
    /\ ipc \in {"users", "audio_files"}
    /\ iPool # Null
    /\ pstate[iPool] = "connected"
    /\ tables' = tables \cup {ipc}
    /\ ipc' = IF ipc = "users" THEN "audio_files" ELSE "returned"
    /\ UNCHANGED <<poolVars, callVars, users, routeVars, dataVars, faults,
                   iRetry, iSleeps, iErr, iPool, collation, signalVars>>

\* initializeDatabase, lines 61-99: a statement fails: pool.request() on
\* null is a TypeError; a query fails for connection, request or timeout
\* reasons, whether or not the server has created the table.
InitQueryFail(kind, created) ==
    /\ ipc \in {"users", "audio_files"}
    /\ IF iPool = Null THEN kind = "TypeError" /\ ~created
       ELSE /\ kind \in QueryFailKinds
            /\ created => pstate[iPool] = "connected"
    /\ tables' = IF created THEN tables \cup {ipc} ELSE tables
    /\ InitCatch(kind)
    /\ UNCHANGED <<poolVars, callVars, users, routeVars, dataVars, faults,
                   iPool, collation, signalVars>>

\* initializeDatabase, lines 108 and 56: the timer fires and the loop goes
\* round.
InitWake ==
    /\ ipc = "sleeping"
    /\ ipc' = "loop"
    /\ UNCHANGED <<poolVars, callVars, users, routeVars, dataVars, faults,
                   iRetry, iSleeps, iErr, iPool, catalogVars, signalVars>>

\* ------------------------------------------------- the signal handlers
\* lines 375 and 387: process.exit(0) ends the process; nothing runs after.
Exit(s) ==
    /\ proc' = "exited"
    /\ exitCode' = 0
    /\ handler' = [handler EXCEPT ![s] = "done"]

\* Signal with the handler not awaiting close(): it calls close() and exits
\* at once.
SignalMutant(s) ==
    /\ proc = "up"
    /\ handler[s] = "idle"
    /\ Exit(s)
    /\ closing' = [closing EXCEPT ![s] = pool]
    /\ UNCHANGED <<poolVars, callVars, users, routeVars, dataVars, faults,
                   initVars, catalogVars, closeLog>>

\* lines 366-368 and 378-380: SIGINT or SIGTERM is delivered and its
\* handler runs up to its first suspension: with a pool in the module
\* variable it calls pool.close() and awaits; without one it goes straight
\* to process.exit(0).
Signal(s) ==
    /\ proc = "up"
    /\ handler[s] = "idle"
    /\ IF pool # Null
       THEN /\ handler' = [handler EXCEPT ![s] = "closing"]
            /\ closing' = [closing EXCEPT ![s] = pool]
            /\ UNCHANGED <<proc, exitCode>>
       ELSE /\ Exit(s)
            /\ UNCHANGED closing
    /\ UNCHANGED <<poolVars, callVars, users, routeVars, dataVars, faults,
                   initVars, catalogVars, closeLog>>

\* lines 369-370 and 375 (381-382 and 387): close() resolves, the pool is
\* closed, the handler logs it and exits.
CloseOk(s) ==
    /\ proc = "up"
    /\ handler[s] = "closing"
    /\ pstate' = [pstate EXCEPT ![closing[s]] = "closed"]
    /\ closeLog' = [closeLog EXCEPT ![s] = "Database connection closed."]
    /\ Exit(s)
    /\ UNCHANGED <<pool, nPools, fatal, callVars, users, routeVars, dataVars,
                   faults, initVars, catalogVars, closing>>

\* lines 371-375 (383-387): close() rejects, the handler logs the error,
\* does not rethrow it, and exits.
CloseFail(s) ==
    /\ proc = "up"
    /\ handler[s] = "closing"
    /\ closeLog' = [closeLog EXCEPT ![s] = "Error closing database connection:"]
    /\ Exit(s)
    /\ UNCHANGED <<poolVars, callVars, users, routeVars, dataVars, faults,
                   initVars, catalogVars, closing>>

\* ------------------------------------------------------- specifications
\* Spec: NumCallers overlapping canUserUseCharacters calls, each running
\* withRetry with the default maxRetries of line 113, against a table
\* holding one user, with at most MaxFailures injected failures.  Of the
\* transient kinds, which withRetry treats alike, queries here fail with
\* one.
CanUseArgs == [userId : {"u1"}, email : {"a@b.com"}, n : {1}]

\* The failures caught so far by the withRetry calls of cs.
RECURSIVE SumRetryCount(_)
SumRetryCount(cs) ==
    IF cs = {} THEN 0
    ELSE LET c == CHOOSE x \in cs : TRUE
         IN  retryCount[c] + SumRetryCount(cs \ {c})

\* Connect failures, query failures and pool errors so far.
FailuresSoFar ==
    SumRetryCount(Callers) + Cardinality({p \in PoolIds : fatal[p]})

BoundedConnectFail(c, kind) ==
    FailuresSoFar < MaxFailures /\ ConnectFail(c, kind)
BoundedOperationFail(c, kind) ==
    FailuresSoFar < MaxFailures /\ OperationFail(c, kind)
BoundedPoolError(p) ==
    FailuresSoFar < MaxFailures /\ PoolError(p)

Next ==
    \/ \E c \in Callers, a \in CanUseArgs :
          Start(c, "canUserUseCharacters", a, DefaultMaxRetries)
    \/ \E c \in Callers : GetDbConnection(c)
    \/ \E c \in Callers : ConnectOk(c)
    \/ \E c \in Callers, kind \in ConnectFailKinds : BoundedConnectFail(c, kind)
    \/ \E c \in Callers : OperationOk(c)
    \/ \E c \in Callers, kind \in {"TimeoutError", "Other", "TypeError"} :
          BoundedOperationFail(c, kind)
    \/ \E c \in Callers : Wake(c)
    \/ \E p \in PoolIds : BoundedPoolError(p)

Spec == Init /\ [][Next]_vars

\* SpecSolo: one call at a time is in flight (caller 1), for every
\* maxRetries in 0..MaxMaxRetries, every argument, and every users table
\* that is empty or holds the user u1.
SoloTables ==
    {<<>>} \cup
    { [u \in {"u1"} |-> [email |-> "a@b.com", subscriptionStatus |-> t,
                          monthlyUsage |-> m]] : t \in Tiers, m \in Usages }
SoloCreateArgs == [userId : UserIds, email : Emails, n : {1}]
SoloCanUseArgs == [userId : UserIds, email : {"a@b.com"}, n : Needed]

InitSolo ==
    /\ pool = Null
    /\ nPools = 0
    /\ pstate = [p \in PoolIds |-> "absent"]
    /\ fatal = [p \in PoolIds |-> FALSE]
    /\ pc = [c \in Callers |-> "idle"]
    /\ fn = [c \in Callers |-> "none"]
    /\ arg = [c \in Callers |-> [userId |-> "u1", email |-> "a@b.com", n |-> 1]]
    /\ maxRetries = [c \in Callers |-> 0]
    /\ retryCount = [c \in Callers |-> 0]
    /\ awaited = [c \in Callers |-> Null]
    /\ borrowed = [c \in Callers |-> Null]
    /\ opRuns = [c \in Callers |-> 0]
    /\ sleeps = [c \in Callers |-> <<>>]
    /\ discards = [c \in Callers |-> 0]
    /\ lastErr = [c \in Callers |-> NoErr]
    /\ result = [c \in Callers |-> Pending]
    /\ users \in SoloTables
    /\ HostInit

NextSolo ==
    \/ \E a \in SoloCreateArgs, max \in 0..MaxMaxRetries :
          Start(1, "createUser", a, max)
    \/ \E a \in SoloCanUseArgs, max \in 0..MaxMaxRetries :
          Start(1, "canUserUseCharacters", a, max)
    \/ GetDbConnection(1)
    \/ ConnectOk(1)
    \/ \E kind \in ConnectFailKinds : ConnectFail(1, kind)
    \/ OperationOk(1)
    \/ \E kind \in ErrKinds : OperationFail(1, kind)
    \/ Wake(1)
    \/ \E p \in PoolIds : PoolError(p)

SpecSolo == InitSolo /\ [][NextSolo]_vars

\* SpecGen: NumCallers overlapping requests to the generate route for the
\* same user, who is one character short of the free limit; a second user
\* is in the table.  At most MaxFaults repository calls fail, with an error
\* whose message names none of the classes of lines 125-129.
InitGen ==
    /\ pool = Null
    /\ nPools = 0
    /\ pstate = [p \in PoolIds |-> "absent"]
    /\ fatal = [p \in PoolIds |-> FALSE]
    /\ pc = [c \in Callers |-> "idle"]
    /\ fn = [c \in Callers |-> "none"]
    /\ arg = [c \in Callers |-> [userId |-> "u1", email |-> "a@b.com", n |-> 1]]
    /\ maxRetries = [c \in Callers |-> 0]
    /\ retryCount = [c \in Callers |-> 0]
    /\ awaited = [c \in Callers |-> Null]
    /\ borrowed = [c \in Callers |-> Null]
    /\ opRuns = [c \in Callers |-> 0]
    /\ sleeps = [c \in Callers |-> <<>>]
    /\ discards = [c \in Callers |-> 0]
    /\ lastErr = [c \in Callers |-> NoErr]
    /\ result = [c \in Callers |-> Pending]
    /\ users = [u \in UserIds |->
                  IF u = RouteUser
                  THEN [email |-> "a@b.com", subscriptionStatus |-> "free",
                        monthlyUsage |-> 4999]
                  ELSE [email |-> "c@d.com", subscriptionStatus |-> "free",
                        monthlyUsage |-> 0]]
    /\ HostInit

BoundedRepositoryFail(c, kind) ==
    faults < MaxFaults /\ RepositoryFail(c, kind)
BoundedRepositoryFailApplied(c, kind) ==
    faults < MaxFaults /\ RepositoryFailApplied(c, kind)

NextGen ==
    \/ \E c \in Callers, isPreview \in BOOLEAN, n \in TextLengths :
          Post(c, isPreview, n)
    \/ \E c \in Callers : GetDbConnection(c)
    \/ \E c \in Callers : ConnectOk(c)
    \/ \E c \in Callers : OperationOk(c)
    \/ \E c \in Callers : RepositoryOk(c)
    \/ \E c \in Callers : BoundedRepositoryFail(c, "Other")
    \/ \E c \in Callers : BoundedRepositoryFailApplied(c, "Other")
    \/ \E c \in Callers : Wake(c)
    \/ \E c \in Callers : AfterCheck(c)
    \/ \E c \in Callers : SynthesisCompleted(c)
    \/ \E c \in Callers, how \in {"canceled", "error"} : SynthesisFailed(c, how)
    \/ \E c \in Callers : AfterUpdate(c)
    \/ \E c \in Callers : AfterSave(c)
    \/ \E c \in Callers : AfterReread(c)

SpecGen == InitGen /\ [][NextGen]_vars


\* SpecGenSolo: one request to the generate route (caller 1), for a user who
\* is one character short of the free limit or has reached it; any number
\* of its repository calls fail.
InitGenSolo ==
    /\ pool = Null
    /\ nPools = 0
    /\ pstate = [p \in PoolIds |-> "absent"]
    /\ fatal = [p \in PoolIds |-> FALSE]
    /\ pc = [c \in Callers |-> "idle"]
    /\ fn = [c \in Callers |-> "none"]
    /\ arg = [c \in Callers |-> [userId |-> "u1", email |-> "a@b.com", n |-> 1]]
    /\ maxRetries = [c \in Callers |-> 0]
    /\ retryCount = [c \in Callers |-> 0]
    /\ awaited = [c \in Callers |-> Null]
    /\ borrowed = [c \in Callers |-> Null]
    /\ opRuns = [c \in Callers |-> 0]
    /\ sleeps = [c \in Callers |-> <<>>]
    /\ discards = [c \in Callers |-> 0]
    /\ lastErr = [c \in Callers |-> NoErr]
    /\ result = [c \in Callers |-> Pending]
    /\ \E m \in {4999, 5000} :
          users = [u \in {RouteUser} |->
                     [email |-> "a@b.com", subscriptionStatus |-> "free",
                      monthlyUsage |-> m]]
    /\ HostInit

NextGenSolo ==
    \/ \E isPreview \in BOOLEAN, n \in TextLengths : Post(1, isPreview, n)
    \/ GetDbConnection(1)
    \/ ConnectOk(1)
    \/ OperationOk(1)
    \/ RepositoryOk(1)
    \/ RepositoryFail(1, "Other")
    \/ RepositoryFailApplied(1, "Other")
    \/ Wake(1)
    \/ AfterCheck(1)
    \/ SynthesisCompleted(1)
    \/ \E how \in {"canceled", "error"} : SynthesisFailed(1, how)
    \/ AfterUpdate(1)
    \/ AfterSave(1)
    \/ AfterReread(1)

SpecGenSolo == InitGenSolo /\ [][NextGenSolo]_vars

\* SpecReset: the usage of two users over two months.  One caller at a
\* time charges a user (updateUserUsage) or runs the scheduled
\* resetMonthlyUsage, while the days pass; at most MaxFaults attempts fail.
\* The users were created, or last reset, on day 0 or day 1.
MaxDay == 2 * DaysPerMonth

\* updateUserUsage is called (lines 236-238) with a character count.
CallUpdateUserUsage(c, u, n) ==
    /\ pc[c] = "idle"
    /\ users[u].monthlyUsage < MaxUsage
    /\ Call(c, "updateUserUsage", [arg[c] EXCEPT !.userId = u, !.n = n])
    /\ UNCHANGED <<poolVars, users, hostVars>>

\* resetMonthlyUsage is called (lines 274-275) by the scheduler.
CallResetMonthlyUsage(c) ==
    /\ pc[c] = "idle"
    /\ Call(c, "resetMonthlyUsage", arg[c])
    /\ UNCHANGED <<poolVars, users, hostVars>>

\* The call has returned or thrown to its caller.
Settle(c) ==
    /\ pc[c] \in {"returned", "thrown"}
    /\ Release(c)
    /\ UNCHANGED <<poolVars, users, hostVars>>

\* A day passes on the server's clock.
Tick ==
    /\ now < MaxDay
    /\ now' = now + 1
    /\ UNCHANGED <<poolVars, callVars, users, routeVars, audioFiles,
                   resetDate, faults, initVars, catalogVars, signalVars>>

InitReset ==
    /\ pool = Null
    /\ nPools = 0
    /\ pstate = [p \in PoolIds |-> "absent"]
    /\ fatal = [p \in PoolIds |-> FALSE]
    /\ pc = [c \in Callers |-> "idle"]
    /\ fn = [c \in Callers |-> "none"]
    /\ arg = [c \in Callers |-> [userId |-> "u1", email |-> "a@b.com", n |-> 1]]
    /\ maxRetries = [c \in Callers |-> 0]
    /\ retryCount = [c \in Callers |-> 0]
    /\ awaited = [c \in Callers |-> Null]
    /\ borrowed = [c \in Callers |-> Null]
    /\ opRuns = [c \in Callers |-> 0]
    /\ sleeps = [c \in Callers |-> <<>>]
    /\ discards = [c \in Callers |-> 0]
    /\ lastErr = [c \in Callers |-> NoErr]
    /\ result = [c \in Callers |-> Pending]
    /\ users = [u \in UserIds |->
                  [email |-> IF u = "u1" THEN "a@b.com" ELSE "c@d.com",
                   subscriptionStatus |-> "free", monthlyUsage |-> 0]]
    /\ stage = [c \in Callers |-> "none"]
    /\ preview = [c \in Callers |-> FALSE]
    /\ synth = [c \in Callers |-> "none"]
    /\ response = [c \in Callers |-> "none"]
    /\ audioFiles = {}
    /\ resetDate \in [UserIds -> {0, 1}]
    /\ now = 1
    /\ faults = 0
    /\ ipc = "idle"
    /\ iRetry = 0
    /\ iSleeps = <<>>
    /\ iErr = NoErr
    /\ iPool = Null
    /\ tables = {"users", "audio_files"}
    /\ collation = "CI"
    /\ proc = "up"
    /\ exitCode = NoCode
    /\ handler = [s \in Signals |-> "idle"]
    /\ closing = [s \in Signals |-> Null]
    /\ closeLog = [s \in Signals |-> "none"]

NextReset ==
    \/ \E u \in UserIds, n \in Needed : CallUpdateUserUsage(1, u, n)
    \/ CallResetMonthlyUsage(1)
    \/ GetDbConnection(1)
    \/ ConnectOk(1)
    \/ RepositoryOk(1)
    \/ BoundedRepositoryFail(1, "Other")
    \/ BoundedRepositoryFailApplied(1, "Other")
    \/ Wake(1)
    \/ Settle(1)
    \/ Tick

SpecReset == InitReset /\ [][NextReset]_vars

\* SpecShutdown: one canUserUseCharacters call creates, connects, loses and
\* replaces pools while SIGINT and SIGTERM may each be delivered once.  The
\* repository code runs only as long as the process is up.
UpStart(c, f, a, max) == proc = "up" /\ Start(c, f, a, max)
UpGetDbConnection(c) == proc = "up" /\ GetDbConnection(c)
UpConnectOk(c) == proc = "up" /\ ConnectOk(c)
UpConnectFail(c, kind) == proc = "up" /\ ConnectFail(c, kind)
UpOperationOk(c) == proc = "up" /\ OperationOk(c)
UpOperationFail(c, kind) == proc = "up" /\ OperationFail(c, kind)
UpWake(c) == proc = "up" /\ Wake(c)
UpPoolError(p) == proc = "up" /\ PoolError(p)

NextShutdown ==
    \/ \E a \in CanUseArgs :
          UpStart(1, "canUserUseCharacters", a, DefaultMaxRetries)
    \/ UpGetDbConnection(1)
    \/ UpConnectOk(1)
    \/ \E kind \in ConnectFailKinds : UpConnectFail(1, kind)
    \/ UpOperationOk(1)
    \/ \E kind \in {"TimeoutError", "Other", "TypeError"} :
          UpOperationFail(1, kind)
    \/ UpWake(1)
    \/ \E p \in PoolIds : UpPoolError(p)
    \/ \E s \in Signals : Signal(s)
    \/ \E s \in Signals : CloseOk(s)
    \/ \E s \in Signals : CloseFail(s)

\* A close() that was called settles: it resolves or rejects.
SpecShutdown ==
    /\ Init
    /\ [][NextShutdown]_vars
    /\ WF_vars(\E s \in Signals : CloseOk(s) \/ CloseFail(s))

\* SpecEmail: one caller creates the user u1 under any email of CaseEmails
\* and looks users up by any email of CaseEmails, in a database whose
\* default collation is case-insensitive or case-sensitive; calls may fail.
EmailArgs == [userId : {"u1"}, email : CaseEmails, n : {1}]

InitEmail ==
    /\ pool = Null
    /\ nPools = 0
    /\ pstate = [p \in PoolIds |-> "absent"]
    /\ fatal = [p \in PoolIds |-> FALSE]
    /\ pc = [c \in Callers |-> "idle"]
    /\ fn = [c \in Callers |-> "none"]
    /\ arg = [c \in Callers |-> [userId |-> "u1", email |-> "a@b.com", n |-> 1]]
    /\ maxRetries = [c \in Callers |-> 0]
    /\ retryCount = [c \in Callers |-> 0]
    /\ awaited = [c \in Callers |-> Null]
    /\ borrowed = [c \in Callers |-> Null]
    /\ opRuns = [c \in Callers |-> 0]
    /\ sleeps = [c \in Callers |-> <<>>]
    /\ discards = [c \in Callers |-> 0]
    /\ lastErr = [c \in Callers |-> NoErr]
    /\ result = [c \in Callers |-> Pending]
    /\ users = <<>>
    /\ stage = [c \in Callers |-> "none"]
    /\ preview = [c \in Callers |-> FALSE]
    /\ synth = [c \in Callers |-> "none"]
    /\ response = [c \in Callers |-> "none"]
    /\ audioFiles = {}
    /\ resetDate = [u \in UserIds |-> 0]
    /\ now = 0
    /\ faults = 0
    /\ ipc = "idle"
    /\ iRetry = 0
    /\ iSleeps = <<>>
    /\ iErr = NoErr
    /\ iPool = Null
    /\ tables = {"users", "audio_files"}
    /\ collation \in {"CI", "CS"}
    /\ proc = "up"
    /\ exitCode = NoCode
    /\ handler = [s \in Signals |-> "idle"]
    /\ closing = [s \in Signals |-> Null]
    /\ closeLog = [s \in Signals |-> "none"]

NextEmail ==
    \/ \E a \in EmailArgs : Start(1, "createUser", a, DefaultMaxRetries)
    \/ \E a \in EmailArgs : Start(1, "findUserByEmail", a, DefaultMaxRetries)
    \/ GetDbConnection(1)
    \/ ConnectOk(1)
    \/ OperationOk(1)
    \/ RepositoryOk(1)
    \/ \E kind \in {"Constraint", "Other"} : OperationFail(1, kind)
    \/ Wake(1)
    \/ Settle(1)

SpecEmail == InitEmail /\ [][NextEmail]_vars

\* SpecInit: initializeDatabase runs against an empty database while one
\* canUserUseCharacters call uses the same pool singleton; connects and
\* statements fail, and pools emit errors, without limit.
InitInit ==
    /\ pool = Null
    /\ nPools = 0
    /\ pstate = [p \in PoolIds |-> "absent"]
    /\ fatal = [p \in PoolIds |-> FALSE]
    /\ pc = [c \in Callers |-> "idle"]
    /\ fn = [c \in Callers |-> "none"]
    /\ arg = [c \in Callers |-> [userId |-> "u1", email |-> "a@b.com", n |-> 1]]
    /\ maxRetries = [c \in Callers |-> 0]
    /\ retryCount = [c \in Callers |-> 0]
    /\ awaited = [c \in Callers |-> Null]
    /\ borrowed = [c \in Callers |-> Null]
    /\ opRuns = [c \in Callers |-> 0]
    /\ sleeps = [c \in Callers |-> <<>>]
    /\ discards = [c \in Callers |-> 0]
    /\ lastErr = [c \in Callers |-> NoErr]
    /\ result = [c \in Callers |-> Pending]
    /\ users = <<>>
    /\ stage = [c \in Callers |-> "none"]
    /\ preview = [c \in Callers |-> FALSE]
    /\ synth = [c \in Callers |-> "none"]
    /\ response = [c \in Callers |-> "none"]
    /\ audioFiles = {}
    /\ resetDate = [u \in UserIds |-> 0]
    /\ now = 0
    /\ faults = 0
    /\ ipc = "idle"
    /\ iRetry = 0
    /\ iSleeps = <<>>
    /\ iErr = NoErr
    /\ iPool = Null
    /\ tables = {}
    /\ collation = "CI"
    /\ proc = "up"
    /\ exitCode = NoCode
    /\ handler = [s \in Signals |-> "idle"]
    /\ closing = [s \in Signals |-> Null]
    /\ closeLog = [s \in Signals |-> "none"]

NextInit ==
    \/ InitializeDatabase
    \/ InitGetDbConnection
    \/ InitConnectOk
    \/ \E kind \in ConnectFailKinds : InitConnectFail(kind)
    \/ InitQueryOk
    \/ \E kind \in QueryFailKinds \cup {"TypeError"}, created \in BOOLEAN :
          InitQueryFail(kind, created)
    \/ InitWake
    \/ \E a \in CanUseArgs :
          Start(1, "canUserUseCharacters", a, DefaultMaxRetries)
    \/ GetDbConnection(1)
    \/ ConnectOk(1)
    \/ \E kind \in ConnectFailKinds : ConnectFail(1, kind)
    \/ OperationOk(1)
    \/ \E kind \in {"TimeoutError", "Other", "TypeError"} :
          OperationFail(1, kind)
    \/ Wake(1)
    \/ \E p \in PoolIds : PoolError(p)

SpecInit == InitInit /\ [][NextInit]_vars

\* ------------------------------------------------------------------ claims
Started(c) == pc[c] # "idle"
\* Failures that are not connection-, request- or timeout-related whatever
\* their message says: a constraint violation, a TypeError.
PermanentKinds == {"Constraint", "TypeError"}

\* C1: a withRetry call that ends by throwing has made exactly maxRetries+1
\* attempts, so it ran the operation at most maxRetries+1 times, and exactly
\* maxRetries+1 times when no attempt failed before reaching the operation;
\* the error it throws is the one caught by attempt maxRetries+1.  No call
\* ever makes more than maxRetries+1 attempts.
C1_ThrowsAfterMaxRetriesPlusOne ==
    \A c \in Callers :
        /\ Started(c) =>
              /\ retryCount[c] <= maxRetries[c] + 1
              /\ opRuns[c] <= maxRetries[c] + 1
        /\ pc[c] = "thrown" =>
              /\ retryCount[c] = maxRetries[c] + 1
              /\ opRuns[c] <= retryCount[c]
              /\ result[c].status = "thrown"
              /\ result[c].err = lastErr[c]
              /\ result[c].err.attempt = maxRetries[c] + 1
              /\ Len(sleeps[c]) = maxRetries[c]
        /\ pc[c] # "thrown" => result[c].status # "thrown"

\* C1 witness: the default maxRetries = 2, the operation ran and failed on
\* each of the 3 attempts, and the call has thrown.
C1_Witness ==
    \E c \in Callers :
        /\ pc[c] = "thrown"
        /\ maxRetries[c] = 2
        /\ opRuns[c] = 3

\* C2: whenever the latest failure caught by withRetry is of a kind that is
\* not transient, such as createUser's constraint violation, the call has
\* already thrown it: no sleep and no further attempt follow.
C2_PermanentFailureNotRetried ==
    \A c \in Callers :
        lastErr[c].kind \in PermanentKinds => pc[c] = "thrown"

\* C3: the step in which the operation succeeds ends the call with the
\* operation's value as the result, without a sleep and without touching the
\* pool singleton; a call that has returned never runs the operation again.
C3_SuccessEndsCall ==
    [][\A c \in Callers :
          /\ (pc[c] = "running" /\ retryCount'[c] = retryCount[c]
                                /\ pc'[c] # "running") =>
                /\ pc'[c] = "returned"
                /\ result'[c].status = "returned"
                /\ fn[c] = "createUser" => result'[c].value = "undefined"
                /\ fn[c] = "canUserUseCharacters" =>
                      result'[c].value =
                          CanUseResult(GetUserWithSubscription(users, arg[c].userId),
                                       arg[c].n)
                /\ pool' = pool
                /\ sleeps'[c] = sleeps[c]
                /\ discards'[c] = discards[c]
          /\ pc[c] = "returned" =>
                /\ pc'[c] = "returned"
                /\ opRuns'[c] = opRuns[c]
                /\ result'[c] = result[c]
                /\ sleeps'[c] = sleeps[c]
      ]_vars

\* C3 witness: a call that succeeded on its second attempt, after one
\* failure and one sleep, with the pool still in place.
C3_Witness ==
    \E c \in Callers :
        /\ pc[c] = "returned"
        /\ retryCount[c] = 1
        /\ opRuns[c] = 2
        /\ pool # Null
        /\ pool = borrowed[c]

\* No caller other than c is inside withRetry and no pool has emitted a
\* fatal error.
Alone(c) ==
    /\ \A d \in Callers \ {c} : pc[d] \in {"idle", "returned", "thrown"}
    /\ \A p \in PoolIds : ~fatal[p]

\* C4 as stated: with no other caller running, a failed attempt drops the
\* pool singleton if and only if the error it caught is transient.
C4_DiscardIffTransient ==
    [][\A c \in Callers :
          (Alone(c) /\ retryCount'[c] = retryCount[c] + 1) =>
              ((pool # Null /\ pool' = Null)
                  <=> lastErr'[c].kind \in TransientKinds)
      ]_vars

\* C4 amended: an attempt whose operation ran and failed executes
\* withRetry's discard, leaving the singleton null, if and only if the error
\* is transient, and otherwise leaves the singleton as it was; an attempt
\* that failed inside getDbConnection's connect leaves the singleton null
\* whatever the error.  Hence a call's discards never exceed its failed
\* attempts, and a call that returns after transient failures of the
\* operation on attempts 1 and 2 has discarded exactly twice.
C4_DiscardByOperationFailure ==
    [][\A c \in Callers :
          /\ (pc[c] = "running" /\ retryCount'[c] = retryCount[c] + 1) =>
                IF lastErr'[c].kind \in TransientKinds
                THEN pool' = Null /\ discards'[c] = discards[c] + 1
                ELSE pool' = pool /\ discards'[c] = discards[c]
          /\ (pc[c] = "connect" /\ retryCount'[c] = retryCount[c] + 1) =>
                /\ pool' = Null
                /\ discards'[c] = discards[c] +
                      (IF lastErr'[c].kind \in TransientKinds THEN 1 ELSE 0)
          /\ retryCount'[c] = retryCount[c] => discards'[c] = discards[c]
      ]_vars

\* C4 witness: 3 total attempts, the operation ran on each, failed with a
\* transient error on attempts 1 and 2 and succeeded on attempt 3; the call
\* has discarded twice and three pools were built.
C4_Witness ==
    /\ pc[1] = "returned"
    /\ maxRetries[1] = 2
    /\ retryCount[1] = 2
    /\ opRuns[1] = 3
    /\ discards[1] = 2
    /\ nPools = 3
    /\ \A p \in PoolIds : ~fatal[p]

\* The step in which getDbConnection returns to caller c.
GetDbConnectionReturns(c) == pc[c] # "running" /\ pc'[c] = "running"

\* The step in which getDbConnection finds no pool.
FindsNoPool(c) == pc[c] = "loop" /\ pc'[c] # "loop" /\ pool = Null

\* C5: whatever getDbConnection returns is a pool, not null, and that pool
\* is connected at the moment of the return.
C5_ReturnsConnectedPool ==
    [][\A c \in Callers :
          GetDbConnectionReturns(c) =>
              /\ borrowed'[c] # Null
              /\ pstate'[borrowed'[c]] = "connected"
      ]_vars

\* No connect, query or pool failure has occurred so far.
NoFailureYet ==
    /\ \A c \in Callers : retryCount[c] = 0
    /\ \A p \in PoolIds : ~fatal[p]

\* C6: as long as nothing has failed, overlapping getDbConnection calls
\* construct one pool only, the singleton refers to it from its construction
\* on, and every caller that getDbConnection has returned to received it.
C6_OnePoolForOverlappingCalls ==
    NoFailureYet =>
        /\ nPools <= 1
        /\ (pool = Null) <=> (nPools = 0)
        /\ (\E c \in Callers : pc[c] \notin {"idle", "loop"}) => pool = 1
        /\ \A c \in Callers :
              pc[c] \in {"running", "returned"} => borrowed[c] = 1

\* C6 witness: two calls overlap, each holding the one pool, while its
\* connect is still pending.
C6_Witness ==
    /\ NoFailureYet
    /\ pc[1] = "connect"
    /\ pc[2] = "running"
    /\ borrowed[2] = 1
    /\ nPools = 1

\* C7: when the connect awaited by getDbConnection fails, the singleton is
\* null after that step and the caller (withRetry) has caught the connect
\* error; a pool whose connect failed is never the singleton again, and a
\* getDbConnection call that finds no pool constructs a new instance.
C7_FailedConnectDiscardsPool ==
    [][/\ \A c \in Callers :
             /\ (pc[c] = "connect" /\ pc'[c] \notin {"connect", "running"}) =>
                   /\ pool' = Null
                   /\ pstate'[awaited[c]] = "failed"
                   /\ retryCount'[c] = retryCount[c] + 1
                   /\ lastErr'[c].kind \in ConnectFailKinds
                   /\ pc'[c] = "thrown" => result'[c] = Thrown(lastErr'[c])
             /\ FindsNoPool(c) =>
                   /\ pool' = nPools + 1
                   /\ pstate[pool'] = "absent"
       /\ pool' # Null => pstate'[pool'] # "failed"
      ]_vars

\* C7 witness: a pool's connect failed with an error withRetry does not
\* classify, and a later getDbConnection call has built another pool.
C7_Witness ==
    \E c \in Callers :
        /\ lastErr[c] = [kind |-> "Other", attempt |-> 1]
        /\ pstate[1] = "failed"
        /\ pc[c] = "connect"
        /\ awaited[c] = 2
        /\ pool = 2

\* C8: the step in which a pool reports a fatal error leaves the singleton
\* null; such a pool is never the singleton again, is never returned by
\* getDbConnection afterwards, and is never reconnected; a getDbConnection
\* call that finds no pool constructs a new instance.
C8_FatalPoolIsReplaced ==
    [][/\ \A p \in PoolIds :
             /\ (~fatal[p] /\ fatal'[p]) => pool' = Null
             /\ fatal[p] => pstate'[p] = pstate[p] /\ fatal'[p]
       /\ pool' # Null => ~fatal'[pool']
       /\ \A c \in Callers :
             /\ (GetDbConnectionReturns(c) /\ borrowed'[c] # Null) =>
                   ~fatal'[borrowed'[c]]
             /\ FindsNoPool(c) =>
                   /\ pool' = nPools + 1
                   /\ pstate[pool'] = "absent"
      ]_vars

\* C8 witness: pool 1 reported a fatal error while it was the singleton, and
\* a later getDbConnection call returned the newly built pool 2.
C8_Witness ==
    \E c \in Callers :
        /\ fatal[1]
        /\ pool = 2
        /\ pc[c] = "running"
        /\ borrowed[c] = 2
        /\ pstate[2] = "connected"
        /\ \A d \in Callers : retryCount[d] = 0

\* The limit the tier mapping assigns: free 5000, pro 100000, premium
\* 500000, and the free limit for every other or missing tier.
TierLimit(tier) ==
    CASE tier = "free" -> 5000
      [] tier = "pro" -> 100000
      [] tier = "premium" -> 500000
      [] OTHER -> 5000

\* C9: for an existing user canUserUseCharacters returns the stored
\* monthlyUsage as currentUsage, the tier's limit (the free limit for an
\* unrecognized or missing tier) as limit, and
\* canUse = (monthlyUsage + charactersNeeded <= limit).
C9_CanUseAgainstTierLimit ==
    \A c \in Callers :
        (/\ pc[c] = "returned"
         /\ fn[c] = "canUserUseCharacters"
         /\ arg[c].userId \in DOMAIN users) =>
            LET user == users[arg[c].userId]
                limit == TierLimit(user.subscriptionStatus)
            IN  result[c].value =
                    [canUse |-> user.monthlyUsage + arg[c].n <= limit,
                     currentUsage |-> user.monthlyUsage,
                     limit |-> limit]

\* C10: for a user id with no row, a canUserUseCharacters call that returns
\* returns {canUse: false, currentUsage: 0, limit: 0} whatever
\* charactersNeeded is; the absence of the row is never turned into a thrown
\* error: such a call throws only the connect or query failure of its last
\* attempt.
C10_AbsentUserFailsClosed ==
    \A c \in Callers :
        (/\ fn[c] = "canUserUseCharacters"
         /\ arg[c].userId \notin DOMAIN users) =>
            /\ pc[c] = "returned" =>
                  result[c] = Returned([canUse |-> FALSE, currentUsage |-> 0,
                                        limit |-> 0])
            /\ pc[c] = "thrown" =>
                  /\ result[c].err.kind \in
                        ConnectFailKinds \cup QueryFailKinds \cup {"TypeError"}
                  /\ retryCount[c] = maxRetries[c] + 1

\* C10 witness: a check for 2 characters on an absent user id has returned.
C10_Witness ==
    \E c \in Callers :
        /\ pc[c] = "returned"
        /\ fn[c] = "canUserUseCharacters"
        /\ arg[c].userId \notin DOMAIN users
        /\ arg[c].n = 2
        /\ result[c].value.canUse = FALSE

\* C11: in every request to the generate route that is not a preview, the
\* usage check has returned before synthesis starts and synthesis starts
\* only if it said canUse; a request whose check said canUse = false ends
\* with "Usage limit exceeded" and never starts synthesis; updateUserUsage is
\* called only once synthesis has completed successfully.
C11_QuotaThenSynthesisThenCharge ==
    [][\A c \in Callers :
        /\ (~preview'[c] /\ synth[c] = "none" /\ synth'[c] = "started")
              => /\ stage[c] = "check"
                 /\ pc[c] = "returned"
                 /\ result[c].value.canUse
        /\ (/\ stage[c] = "check"
            /\ pc[c] = "returned"
            /\ ~result[c].value.canUse
            /\ stage'[c] # "check")
              => /\ response'[c] = "429 Usage limit exceeded"
                 /\ synth'[c] = "none"
        /\ response'[c] = "429 Usage limit exceeded" => synth'[c] = "none"
        /\ fn'[c] = "updateUserUsage"
              => ~preview'[c] /\ synth'[c] = "completed"]_vars
\* a request that is no preview was checked, synthesized, charged and
\* answered with success
C11_Witness ==
    \E c \in Callers :
        ~preview[c] /\ synth[c] = "completed" /\ response[c] = "200"

\* C12: the usage check only reads the table and the later update adds the
\* request's characters whatever the usage has become, so two overlapping
\* requests that are no previews can both pass the check before either
\* updates: the user's monthlyUsage then exceeds the tier limit.
C12_CheckThenUnconditionalUpdate ==
    [][\A c \in Callers :
        /\ (fn[c] = "canUserUseCharacters" /\ pc[c] = "running"
                /\ pc'[c] = "returned")
              => users' = users
        /\ (fn[c] = "updateUserUsage" /\ pc[c] = "running"
                /\ pc'[c] = "returned")
              => users'[arg[c].userId].monthlyUsage
                    = users[arg[c].userId].monthlyUsage + arg[c].n]_vars
\* with no failure injected, two requests have been charged and the user
\* is over the free limit
C12_Witness ==
    /\ faults = 0
    /\ \E c, d \in Callers :
          /\ c # d
          /\ ~preview[c] /\ response[c] = "200"
          /\ ~preview[d] /\ response[d] = "200"
    /\ users[RouteUser].monthlyUsage > TierLimit(users[RouteUser].subscriptionStatus)

\* The requests whose updateUserUsage call has returned, and those still
\* inside it or past one that threw.
Charged(c) ==
    /\ ~preview[c]
    /\ \/ stage[c] = "update" /\ pc[c] = "returned"
       \/ stage[c] \in {"save", "reread"}
       \/ stage[c] = "done" /\ response[c] = "200"
UpdateUnsettled(c) ==
    \/ stage[c] = "update" /\ pc[c] # "returned"
    \/ /\ stage[c] = "done" /\ synth[c] = "completed"
       /\ response[c] = "500 Internal server error"

\* The characters of the requests in cs.
RECURSIVE SumCharacters(_)
SumCharacters(cs) ==
    IF cs = {} THEN 0
    ELSE LET c == CHOOSE x \in cs : TRUE
         IN  arg[c].n + SumCharacters(cs \ {c})

\* C13: updateUserUsage is additive: once the calls updateUserUsage(u, n)
\* that were made have returned, in whatever order or overlap they ran, u's
\* monthlyUsage is its prior value (4999) plus the sum of their n, and the
\* monthlyUsage of every other user is what it was (0).
C13_UpdateUserUsageAdditive ==
    (\A c \in Callers : ~UpdateUnsettled(c))
       => /\ users[RouteUser].monthlyUsage
                = 4999 + SumCharacters({c \in Callers : Charged(c)})
          /\ \A u \in DOMAIN users \ {RouteUser} : users[u].monthlyUsage = 0

\* The date a lies at least one full calendar month before today: the same
\* day of the following month has been reached.
FullMonthBefore(a, today) == a + DaysPerMonth <= today

\* C14: a resetMonthlyUsage statement sets monthlyUsage to 0 and
\* usageResetDate to now for exactly the rows whose usageResetDate is at
\* least one full calendar month before now and leaves every other row
\* unchanged: a row last reset exactly one month ago is reset, a row last
\* reset one day short of a month ago is not.
C14_ResetsRowsAFullMonthOld ==
    [][\A c \in Callers :
        (fn[c] = "resetMonthlyUsage" /\ pc[c] = "running"
            /\ pc'[c] = "returned")
          => \A u \in DOMAIN users :
                IF FullMonthBefore(resetDate[u], now)
                THEN users'[u].monthlyUsage = 0 /\ resetDate'[u] = now
                ELSE users'[u] = users[u] /\ resetDate'[u] = resetDate[u]]_vars

\* C15: a user's monthlyUsage is always a non-negative integer, and no step
\* lowers it except a resetMonthlyUsage statement, which sets it to 0.
C15_UsageOnlyLoweredByReset ==
    [][\A u \in DOMAIN users :
        /\ users[u].monthlyUsage \in Nat
        /\ users'[u].monthlyUsage \in Nat
        /\ users'[u].monthlyUsage < users[u].monthlyUsage
              => /\ users'[u].monthlyUsage = 0
                 /\ \E c \in Callers :
                       fn[c] = "resetMonthlyUsage" /\ pc[c] = "running"]_vars
\* a user has been reset in a later month and charged again since
C15_Witness ==
    \E u \in DOMAIN users :
        resetDate[u] >= DaysPerMonth /\ users[u].monthlyUsage > 0

\* C16: when SIGINT or SIGTERM is delivered while a pool is current, the
\* handler calls close() on that pool and the process does not exit before
\* that close has settled; a close that fails is logged and not rethrown;
\* the process exits, with code 0, in every case: close succeeded, close
\* failed, or there was no pool.
C16_CloseAwaitedThenExitZero ==
    /\ [][\A s \in Signals :
            /\ (handler[s] = "idle" /\ handler'[s] # "idle" /\ pool # Null)
                  => /\ handler'[s] = "closing"
                     /\ closing'[s] = pool
                     /\ proc' = "up"
            /\ (handler[s] # "done" /\ handler'[s] = "done")
                  => /\ proc' = "exited" /\ exitCode' = 0
                     /\ \/ handler[s] = "idle" /\ pool = Null
                        \/ /\ handler[s] = "closing"
                           /\ closeLog'[s] # "none"
            /\ (closeLog[s] = "none" /\ closeLog'[s] # "none")
                  => handler[s] = "closing" /\ handler'[s] = "done"]_vars
    /\ [](proc = "exited" => exitCode = 0 /\ \E s \in Signals : handler[s] = "done")
    /\ \A s \in Signals : (handler[s] # "idle") ~> (proc = "exited")
\* the process has exited after a close() of the current pool that failed
C16_Witness ==
    \E s \in Signals :
        /\ proc = "exited" /\ exitCode = 0
        /\ closing[s] # Null
        /\ closeLog[s] = "Error closing database connection:"

\* C17: findUserByEmail ignores case with respect to what createUser
\* stored: a lookup by any case variant e' of the email e a user was created
\* with returns that user (created with a@B.com, found with A@b.COM),
\* because the email is case-folded before the insert as before the lookup.
C17_FindUserByEmailIgnoresCase ==
    /\ [][\A c \in Callers :
            (fn[c] = "findUserByEmail" /\ pc[c] = "running"
                /\ pc'[c] = "returned")
              => \A u \in DOMAIN users :
                    ToLowerCase(users[u].email) = ToLowerCase(arg[c].email)
                       => result'[c].value = u]_vars
    /\ [](\A u \in DOMAIN users : users[u].email = ToLowerCase(users[u].email))

\* The audio_files rows request c's saveAudioFile calls have inserted.
RowsOf(c) == {r \in audioFiles : r.id[1] = c}

\* C18: a request that is no preview and whose synthesis completed
\* successfully has created exactly one audio_files row when it ends, and
\* never more than one; a preview, a request whose synthesis failed and a
\* request the quota check refused create none; a preview never changes
\* monthlyUsage; no step changes or removes an existing audio_files row.
C18_OneAudioRowPerCompletedRequest ==
    /\ [](\A c \in Callers :
            /\ Cardinality(RowsOf(c)) <= 1
            /\ (stage[c] = "done" /\ ~preview[c] /\ synth[c] = "completed")
                  => Cardinality(RowsOf(c)) = 1
            /\ (preview[c] \/ synth[c] # "completed") => RowsOf(c) = {})
    /\ [][/\ users' # users
               => \E c \in Callers :
                     ~preview[c] /\ fn[c] = "updateUserUsage"
                        /\ pc[c] = "running"
          /\ audioFiles \subseteq audioFiles']_vars

\* C19: initializeDatabase runs its own retry loop: it returns on the first
\* attempt in which both CREATE TABLE statements succeed, makes at most 3
\* attempts, has waited 1000 ms times the number of failed attempts so far
\* after each failure but the third, and after the third failure rethrows
\* that failure's error without a further wait.
C19_InitializeDatabaseRetryLoop ==
    /\ [](/\ iRetry <= InitMaxRetries
          /\ (iRetry = InitMaxRetries) <=> (ipc = "thrown")
          /\ Len(iSleeps) = (IF ipc = "thrown" THEN iRetry - 1 ELSE iRetry)
          /\ \A i \in 1..Len(iSleeps) : iSleeps[i] = 1000 * i
          /\ ipc = "thrown" => iErr.attempt = InitMaxRetries
          /\ ipc = "returned" => {"users", "audio_files"} \subseteq tables)
    /\ [][/\ (ipc # "returned" /\ ipc' = "returned")
                => ipc = "audio_files" /\ iRetry' = iRetry
          /\ (ipc = "audio_files" /\ ipc' # "audio_files")
                => ipc' = "returned" \/ iRetry' = iRetry + 1
          /\ ipc \in {"returned", "thrown"} => UNCHANGED initVars]_vars
\* initializeDatabase has returned on its third attempt, having slept
\* 1000 ms and 2000 ms
C19_Witness ==
    ipc = "returned" /\ iRetry = 2 /\ iSleeps = <<1000, 2000>>

\* C20: in withRetry the caller sleeps 500 * i ms after its i-th failed
\* attempt, for i = 1..maxRetries, and starts the next attempt only when
\* that sleep is over; it does not sleep before the first attempt nor after
\* the final failed attempt.
C20_LinearBackoff ==
    /\ [](\A c \in Callers :
            LET slept == IF pc[c] = "thrown" THEN retryCount[c] - 1
                         ELSE retryCount[c]
            IN  /\ Len(sleeps[c]) = slept
                /\ slept <= maxRetries[c]
                /\ \A i \in 1..Len(sleeps[c]) : sleeps[c][i] = 500 * i
                /\ pc[c] = "thrown" => Len(sleeps[c]) = maxRetries[c])
    /\ [][\A c \in Callers :
            /\ sleeps'[c] # sleeps[c]
                  => /\ retryCount'[c] = retryCount[c] + 1
                     /\ pc[c] \in {"connect", "running"}
                     /\ pc'[c] = "sleeping"
            /\ (pc[c] = "sleeping" /\ pc'[c] # "sleeping")
                  => /\ pc'[c] = "loop"
                     /\ opRuns'[c] = opRuns[c]
            /\ (retryCount'[c] # retryCount[c] /\ retryCount'[c] <= maxRetries[c])
                  => pc'[c] = "sleeping"
            /\ opRuns'[c] # opRuns[c] => pc[c] \in {"loop", "connect"}]_vars
\* a call with maxRetries = 2 has failed three times and thrown, having
\* slept 500 ms and 1000 ms
C20_Witness ==
    \E c \in Callers :
        /\ pc[c] = "thrown" /\ maxRetries[c] = 2
        /\ sleeps[c] = <<500, 1000>>

\* C21: an 'error' event emitted by a pool that is no longer the current
\* singleton (it was discarded and another pool took its place) leaves the
\* singleton reference alone: an error event clears `pool` only when the
\* pool that emitted it is the current one.
C21_StalePoolErrorKeepsCurrentPool ==
    [][\A p \in PoolIds :
          (~fatal[p] /\ fatal'[p] /\ pool # Null /\ pool # p)
             => pool' = pool]_vars

\* C22: a call updateUserUsage(u, n) that returns successfully has raised
\* u's monthlyUsage by exactly n, even when withRetry retried it: an attempt
\* whose UPDATE was applied but reported as failed does not make the
\* increment happen a second time.  (The one request of SpecGenSolo reaches
\* updateUserUsage only from a usage of 4999, the check having passed.)
C22_RetriedUpdateIncrementsOnce ==
    \A c \in Callers :
        (fn[c] = "updateUserUsage" /\ pc[c] = "returned")
           => users[arg[c].userId].monthlyUsage = 4999 + arg[c].n

\* C23: when the non-preview generate requests of a user run one at a time
\* and the user's tier does not change, monthlyUsage <= limit(tier) holds
\* after every request, given it held at the start: usage is raised by n
\* only after a check that found monthlyUsage + n <= limit.
C23_SequentialRequestsKeepLimit ==
    \A c \in Callers :
        (stage[c] = "done" /\ ~preview[c])
           => users[RouteUser].monthlyUsage
                 <= TierLimit(users[RouteUser].subscriptionStatus)

\* C24: in a non-preview generate request, charging the usage and recording
\* the audio file are all-or-nothing: when the request has ended, either
\* monthlyUsage was raised by the text length and an audio_files row was
\* inserted, or neither happened; a saveAudioFile that fails after
\* updateUserUsage succeeded does not leave the user charged without a
\* record.  (The one request of SpecGenSolo passes the check only from a
\* usage of 4999; a request that does not pass it is not charged.)
C24_ChargeAndRecordAllOrNothing ==
    \A c \in Callers :
        (stage[c] = "done" /\ ~preview[c])
           => IF synth[c] = "completed"
              THEN \/ /\ users[RouteUser].monthlyUsage = 4999 + arg[c].n
                      /\ Cardinality(RowsOf(c)) = 1
                   \/ /\ users[RouteUser].monthlyUsage = 4999
                      /\ RowsOf(c) = {}
              ELSE /\ users[RouteUser].monthlyUsage \in {4999, 5000}
                   /\ RowsOf(c) = {}

\* The case C24 names: updateUserUsage has charged the user once and
\* returned, and saveAudioFile has thrown after its last attempt without
\* inserting a row; the route is about to answer 500 (lines 136-139).
C24_ChargedWithoutRecord ==
    \E c \in Callers :
        /\ stage[c] = "save" /\ ~preview[c] /\ synth[c] = "completed"
        /\ fn[c] = "saveAudioFile" /\ pc[c] = "thrown"
        /\ users[RouteUser].monthlyUsage = 4999 + arg[c].n
        /\ RowsOf(c) = {}

\* C25: no connected pool is leaked: every pool that was connected and then
\* dropped from the singleton reference (by withRetry's discard, by the
\* error observer, or by a failed reconnect) is closed, so when the
\* shutdown handler has exited the process no pool created during its
\* lifetime is still open (a pool whose close() the handler called and that
\* rejected aside).
C25_NoPoolOpenAtExit ==
    proc = "exited"
       => \A p \in PoolIds :
             pstate[p] = "connected" => \E s \in Signals : closing[s] = p

====
